---- MODULE Spec2Model ----
(***************************************************************************)
(* Model of eyedropper's colour-notation dispatcher,                       *)
(* src/colors/notation.rs: Notation::parse, Notation::as_str and           *)
(* <Notation as FromStr>::from_str.                                        *)
(*                                                                         *)
(* Texts are sequences of strings.  A colour text is a sequence of lexical *)
(* tokens (<<"rgb(", "12", "0", "255", ")">>); a notation label is a       *)
(* sequence of characters (<<"R", "g", "b">>).                             *)
(*                                                                         *)
(* The dispatcher is translated from notation.rs.  The code it delegates   *)
(* to (parser::*, ColorFormatter, color_names, Illuminant, AlphaPosition,  *)
(* the GSettings store) lives in other files; those definitions follow the *)
(* design document and say so in their comments.                           *)
(***************************************************************************)
EXTENDS Integers, Sequences, FiniteSets, TLC

VARIABLES
    settings,   \* the GSettings store: key -> stored i32
    locale,     \* the process locale gettext translates to
    op,         \* the last call: "none", "set", "parse", "as_str", "from_str"
    notation,   \* self of the last call
    input,      \* the text argument of the last parse / from_str
    base,       \* from_str: the bare text the input was derived from
    argColor,   \* the Color argument of the last as_str
    result,     \* what the last call returned
    used        \* the store as the last parse / as_str call found it

vars == <<settings, locale, op, notation, input, base, argColor, result,
          used>>

----------------------------------------------------------------------------
(* Bounds *)

\* longest run of whitespace put before / after a notation label
MaxPad == 1

\* largest decimal literal a colour text carries
MaxNum == 330

----------------------------------------------------------------------------
(* enum Notation *)

Notations ==
    {"Hex", "Rgb", "Hsl", "Hsv", "Cmyk", "Xyz", "Lab", "Hwb", "Hcl", "Name",
     "Lms", "HunterLab", "Oklab", "Oklch"}

\* #[default] Hex
DefaultNotation == "Hex"

----------------------------------------------------------------------------
(* Color and results *)

\* largest value of a colour channel (design document, section 3)
MaxChannel == 255

\* Color: three channels and alpha, each 0..MaxChannel
MkColor(c1, c2, c3, a) == [c |-> <<c1, c2, c3>>, a |-> a]

\* placeholder of the colour field in a result that carries no Color
NoColor == [c |-> <<0, 0, 0>>, a |-> -1]

IsColor(col) ==
    /\ col.a \in 0..MaxChannel
    /\ \A i \in 1..3 : col.c[i] \in 0..MaxChannel

\* IResult<&str, Color> of a parser: Ok((rest, color)) or Err
POk(rest, col) == [ok |-> TRUE, rest |-> rest, color |-> col, msg |-> ""]
PErr(msg) == [ok |-> FALSE, rest |-> <<>>, color |-> NoColor, msg |-> msg]

\* Option<Color> / Option<String> of the name registry
Some(v) == [some |-> TRUE, v |-> v]
NoneColor == [some |-> FALSE, v |-> NoColor]
NoneText == [some |-> FALSE, v |-> <<>>]

\* the value a call returns
NoResult ==
    [kind |-> "none", color |-> NoColor, text |-> <<>>, variant |-> "",
     msg |-> ""]
OkColor(col) == [NoResult EXCEPT !.kind = "ok", !.color = col]
OkText(t) == [NoResult EXCEPT !.kind = "ok", !.text = t]
OkVariant(v) == [NoResult EXCEPT !.kind = "ok", !.variant = v]
\* ColorError::ParsingError(msg)
ParsingError(msg) == [NoResult EXCEPT !.kind = "err", !.msg = msg]

----------------------------------------------------------------------------
(* Configuration: the GSettings store and the two index conversions *)

\* the three keys notation.rs reads
Keys == {"cie-standard-observer", "cie-illuminants", "alpha-position"}

\* gio::Settings::new(config::APP_ID) followed by settings.int(key): every
\* call opens the store anew and reads the value stored at that moment
SettingsInt_cached(s, key) == used[key]
SettingsInt(s, key) == s[key]

\* `as u32` on an i32: a negative value wraps to i + 2^32, which is at least
\* 2^31; integers here stop at 2^31 - 1, so the wrapped value is kept 2^31
\* too low, still far above every index
AsU32(i) == IF i >= 0 THEN i ELSE (i + 1) + 2147483647

\* enum Illuminant (design document: D65, D50, ...), first variant the default
Illuminants == <<"D65", "D50">>
DefaultIlluminant == Illuminants[1]

\* Illuminant::from(u32): an infallible From; an index that names no
\* illuminant falls back to the default (design document, section 9)
IlluminantFrom(u) ==
    IF u \in 0..(Len(Illuminants) - 1) THEN Illuminants[u + 1]
    ELSE DefaultIlluminant

\* enum AlphaPosition (design document: trailing / leading)
AlphaPositions == <<"End", "Start">>
DefaultAlphaPosition == AlphaPositions[1]

\* AlphaPosition::from(u32)
AlphaPositionFrom(u) ==
    IF u \in 0..(Len(AlphaPositions) - 1) THEN AlphaPositions[u + 1]
    ELSE DefaultAlphaPosition

\* reference white (Xn, Yn, Zn) of an illuminant under the 2 or 10 degree
\* observer, rounded to integers
WhitePoint(illuminant, ten_deg_observer) ==
    CASE illuminant = "D65" ->
            IF ten_deg_observer THEN <<95, 100, 107>> ELSE <<95, 100, 109>>
      [] OTHER ->
            IF ten_deg_observer THEN <<97, 100, 81>> ELSE <<96, 100, 83>>

----------------------------------------------------------------------------
(* Numbers in text *)

\* decimal rendering of the integers a text can carry
NumTable == [n \in 0..MaxNum |-> ToString(n)]

\* the number each decimal literal spells
NumOf == [t \in {NumTable[n] : n \in 0..MaxNum} |->
             CHOOSE n \in 0..MaxNum : NumTable[n] = t]

\* the number a token spells, -1 when it spells none
Num(tok) == IF tok \in DOMAIN NumOf THEN NumOf[tok] ELSE -1

HexDigits ==
    <<"0", "1", "2", "3", "4", "5", "6", "7", "8", "9",
      "A", "B", "C", "D", "E", "F">>

\* two uppercase hex digits of a byte
HexTable ==
    [n \in 0..MaxChannel |->
        HexDigits[(n \div 16) + 1] \o HexDigits[(n % 16) + 1]]

\* the byte each pair of hex digits spells
ByteOf == [t \in {HexTable[n] : n \in 0..MaxChannel} |->
              CHOOSE n \in 0..MaxChannel : HexTable[n] = t]

\* the byte two hex digits spell, -1 when they spell none
HexByte(tok) == IF tok \in DOMAIN ByteOf THEN ByteOf[tok] ELSE -1

\* a channel as a coordinate relative to one component of the reference
\* white, rounded to the displayed precision, and back
Encode(ch, w) == (ch * 100 + (w \div 2)) \div w
Decode(t, w) == (t * w + 50) \div 100

----------------------------------------------------------------------------
(* parser::* : text -> IResult<rest, Color> (design document, section 4.2) *)

\* the opening token of each functional notation
Opening(n) ==
    CASE n = "Rgb" -> "rgb("
      [] n = "Hsl" -> "hsl("
      [] n = "Hsv" -> "hsv("
      [] n = "Cmyk" -> "cmyk("
      [] n = "Xyz" -> "xyz("
      [] n = "Lab" -> "lab("
      [] n = "Hwb" -> "hwb("
      [] n = "Hcl" -> "lch("
      [] n = "Lms" -> "lms("
      [] n = "HunterLab" -> "hunterlab("
      [] n = "Oklab" -> "oklab("
      [] n = "Oklch" -> "oklch("
      [] OTHER -> "#"

Rest(text, from) == SubSeq(text, from, Len(text))

\* head n1 n2 n3 ")" with the three numbers read against the white w;
\* whatever follows ")" is handed back as the remaining text
functional(text, head, w) ==
    IF Len(text) < 5 THEN PErr("unexpected end of input")
    ELSE IF text[1] # head THEN PErr("unknown prefix")
    ELSE IF \E i \in 2..4 : Num(text[i]) = -1 THEN PErr("expected a number")
    ELSE IF text[5] # ")" THEN PErr("wrong channel count")
    ELSE LET col == MkColor(Decode(Num(text[2]), w[1]),
                            Decode(Num(text[3]), w[2]),
                            Decode(Num(text[4]), w[3]), MaxChannel)
         IN  IF IsColor(col) THEN POk(Rest(text, 6), col)
             ELSE PErr("value out of range")

\* the white of a notation that has no reference white: channels as written
NoWhite == <<100, 100, 100>>

\* parser::hex_color(input, alpha_position)
hex_color(text, alpha_position) ==
    IF Len(text) < 4 THEN PErr("unexpected end of input")
    ELSE IF text[1] # "#" THEN PErr("unknown prefix")
    ELSE IF \E i \in 2..4 : HexByte(text[i]) = -1
         THEN PErr("expected hex digits")
    ELSE IF Len(text) >= 5 /\ HexByte(text[5]) # -1
         THEN IF alpha_position = "Start"
              THEN POk(Rest(text, 6),
                       MkColor(HexByte(text[3]), HexByte(text[4]),
                               HexByte(text[5]), HexByte(text[2])))
              ELSE POk(Rest(text, 6),
                       MkColor(HexByte(text[2]), HexByte(text[3]),
                               HexByte(text[4]), HexByte(text[5])))
    ELSE POk(Rest(text, 5),
             MkColor(HexByte(text[2]), HexByte(text[3]), HexByte(text[4]),
                     MaxChannel))

\* parser::rgb, hsl, hsv, cmyk, xyz, hwb, lch, lms, oklab, oklch (input)
plain(text, n) == functional(text, Opening(n), NoWhite)

\* parser::cielab(input, illuminant, ten_deg_observer)
cielab(text, illuminant, ten_deg_observer) ==
    functional(text, Opening("Lab"), WhitePoint(illuminant, ten_deg_observer))

\* parser::hunter_lab(input, illuminant, ten_deg_observer)
hunter_lab(text, illuminant, ten_deg_observer) ==
    functional(text, Opening("HunterLab"),
               WhitePoint(illuminant, ten_deg_observer))

----------------------------------------------------------------------------
(* color_names: the name registry *)

NameTable ==
    <<[name |-> "black", color |-> MkColor(0, 0, 0, MaxChannel)],
      [name |-> "white",
       color |-> MkColor(MaxChannel, MaxChannel, MaxChannel, MaxChannel)]>>

\* color_names::color(input, true, true, true, true) -> Option<Color>
color_names_color(text) ==
    IF Len(text) = 1 /\ \E i \in 1..Len(NameTable) : NameTable[i].name = text[1]
    THEN Some(NameTable[CHOOSE i \in 1..Len(NameTable) :
                            NameTable[i].name = text[1]].color)
    ELSE NoneColor

\* color_names::name(color, true, true, true, true) -> Option<String>
color_names_name(col) ==
    IF \E i \in 1..Len(NameTable) : NameTable[i].color = col
    THEN Some(<<NameTable[CHOOSE i \in 1..Len(NameTable) :
                              NameTable[i].color = col].name>>)
    ELSE NoneText

----------------------------------------------------------------------------
(* ColorFormatter (design document, section 4.3) *)

\* ColorFormatter::with_alpha_position(color, alpha_position): the other
\* fields keep their defaults
with_alpha_position(col, alpha_position) ==
    [color |-> col, alpha_position |-> alpha_position,
     illuminant |-> DefaultIlluminant, ten_deg_observer |-> FALSE]

\* head n1 n2 n3 ")" with the channels written against the white w
format_functional(col, opening, w) ==
    <<opening, ToString(Encode(col.c[1], w[1])),
      ToString(Encode(col.c[2], w[2])), ToString(Encode(col.c[3], w[3])),
      ")">>

\* formatter.hex_code(): "#" and four bytes, alpha where alpha_position says
hex_code(f) ==
    LET b == [i \in 1..3 |-> HexTable[f.color.c[i]]]
        a == HexTable[f.color.a]
    IN  IF f.alpha_position = "Start" THEN <<"#", a, b[1], b[2], b[3]>>
        ELSE <<"#", b[1], b[2], b[3], a>>

\* formatter.rgb(), hsl(), hsv(), cmyk(), xyz(), hwb(), hcl(), lms(),
\* oklab(), oklch()
format_plain(f, n) == format_functional(f.color, Opening(n), NoWhite)

\* formatter.cie_lab()
cie_lab(f) ==
    format_functional(f.color, Opening("Lab"),
                      WhitePoint(f.illuminant, f.ten_deg_observer))

\* formatter.hunter_lab()
format_hunter_lab(f) ==
    format_functional(f.color, Opening("HunterLab"),
                      WhitePoint(f.illuminant, f.ten_deg_observer))

\* gettextrs::gettext(msgid): msgid itself without a catalog for the locale,
\* the catalog's translation of msgid otherwise
Locales == {"C", "de"}
gettext(loc, msgid) == IF loc = "C" THEN msgid ELSE msgid \o "@" \o loc

----------------------------------------------------------------------------
(* impl Notation *)

delegate_white(self, text, illuminant, ten_deg_observer, alpha_position) ==
    CASE self = "Hex" -> hex_color(text, alpha_position)
      [] OTHER ->
            functional(text, Opening(self),
                       WhitePoint(illuminant, ten_deg_observer))

\* the match of Notation::parse, lines 43-59: the parser each variant is
\* handed to, and the configuration values handed along with the input
delegate(self, text, illuminant, ten_deg_observer, alpha_position) ==
    CASE self = "Hex" -> hex_color(text, alpha_position)
      [] self = "Lab" -> cielab(text, illuminant, ten_deg_observer)
      [] self = "HunterLab" -> hunter_lab(text, illuminant, ten_deg_observer)
      [] OTHER -> plain(text, self)

dispatch_lenient(self, text, illuminant, ten_deg_observer, alpha_position) ==
    IF self = "Name"
    THEN OkColor(color_names_color(text).v)
    ELSE OkColor(delegate(self, text, illuminant, ten_deg_observer,
                          alpha_position).color)

\* the rest of the match: the Name arm returns early, every other arm
\* applies `?` to the parser's result, drops the remaining text and returns
\* Ok(color)
dispatch(self, text, illuminant, ten_deg_observer, alpha_position) ==
    IF self = "Name"
    THEN LET found == color_names_color(text)
         IN  IF found.some THEN OkColor(found.v)
             ELSE ParsingError("No name found")
    ELSE LET r == delegate(self, text, illuminant, ten_deg_observer,
                           alpha_position)
         IN  IF r.ok THEN OkColor(r.color) ELSE ParsingError(r.msg)

\* line 41: settings.int("cie-standard-observer") == 1
ten_deg_observer_of(s) == SettingsInt(s, "cie-standard-observer") = 1

\* line 42: Illuminant::from(settings.int("cie-illuminants") as u32)
illuminant_of(s) == IlluminantFrom(AsU32(SettingsInt(s, "cie-illuminants")))

\* lines 46 and 72: AlphaPosition::from(settings.int("alpha-position") as u32)
alpha_position_of(s) ==
    AlphaPositionFrom(AsU32(SettingsInt(s, "alpha-position")))

\* Notation::parse(&self, input), reading the store s
parse(self, text, s) ==
    dispatch(self, text, illuminant_of(s), ten_deg_observer_of(s),
             alpha_position_of(s))

render_strict(self, f, loc) ==
    CASE self = "Hex" -> OkText(hex_code(f))
      [] self = "Lab" -> OkText(cie_lab(f))
      [] self = "HunterLab" -> OkText(format_hunter_lab(f))
      [] self = "Name" ->
            LET found == color_names_name(f.color)
            IN  IF found.some THEN OkText(found.v)
                ELSE ParsingError("No name found")
      [] OTHER -> OkText(format_plain(f, self))

\* the match of Notation::as_str, lines 74-90
render(self, f, loc) ==
    CASE self = "Hex" -> OkText(hex_code(f))
      [] self = "Lab" -> OkText(cie_lab(f))
      [] self = "HunterLab" -> OkText(format_hunter_lab(f))
      [] self = "Name" ->
            LET found == color_names_name(f.color)
            IN  IF found.some THEN OkText(found.v)
                ELSE OkText(<<gettext(loc, "Not named")>>)
      [] OTHER -> OkText(format_plain(f, self))

\* Notation::as_str(&self, color), reading the store s
as_str(self, col, s, loc) ==
    render(self, with_alpha_position(col, alpha_position_of(s)), loc)

----------------------------------------------------------------------------
(* impl FromStr for Notation *)

UpperCase ==
    <<"A", "B", "C", "D", "E", "F", "G", "H", "I", "J", "K", "L", "M",
      "N", "O", "P", "Q", "R", "S", "T", "U", "V", "W", "X", "Y", "Z">>
LowerCase ==
    <<"a", "b", "c", "d", "e", "f", "g", "h", "i", "j", "k", "l", "m",
      "n", "o", "p", "q", "r", "s", "t", "u", "v", "w", "x", "y", "z">>

\* char::is_whitespace, on the characters the inputs are made of
WhiteSpace == {" ", "\t"}

lower_char(ch) ==
    IF \E i \in 1..Len(UpperCase) : UpperCase[i] = ch
    THEN LowerCase[CHOOSE i \in 1..Len(UpperCase) : UpperCase[i] = ch]
    ELSE ch

upper_char(ch) ==
    IF \E i \in 1..Len(LowerCase) : LowerCase[i] = ch
    THEN UpperCase[CHOOSE i \in 1..Len(LowerCase) : LowerCase[i] = ch]
    ELSE ch

\* str::to_lowercase
to_lowercase(s) == [i \in 1..Len(s) |-> lower_char(s[i])]

\* str::trim: drop the whitespace at both ends
trim(s) ==
    LET inner == {i \in 1..Len(s) : s[i] \notin WhiteSpace}
    IN  IF inner = {} THEN <<>>
        ELSE SubSeq(s, CHOOSE i \in inner : \A j \in inner : i <= j,
                       CHOOSE i \in inner : \A j \in inner : j <= i)

\* the characters of a text as one string, to match against the literals
RECURSIVE Join(_)
Join(s) == IF s = <<>> THEN "" ELSE s[1] \o Join(Tail(s))

from_str_cased(s) ==
    LET t == Join(trim(s))
    IN  CASE t = "hex" -> OkVariant("Hex")
          [] t = "rgb" -> OkVariant("Rgb")
          [] t = "hsl" -> OkVariant("Hsl")
          [] t = "hsv" -> OkVariant("Hsv")
          [] t = "cmyk" -> OkVariant("Cmyk")
          [] t = "xyz" -> OkVariant("Xyz")
          [] t = "cielab" -> OkVariant("Lab")
          [] t = "hwb" -> OkVariant("Hwb")
          [] t = "hcl" -> OkVariant("Hcl")
          [] t = "name" -> OkVariant("Name")
          [] t = "lms" -> OkVariant("Lms")
          [] t = "hunterlab" -> OkVariant("HunterLab")
          [] t = "oklab" -> OkVariant("Oklab")
          [] t = "oklch" -> OkVariant("Oklch")
          [] OTHER -> ParsingError("Failed to get color notation")

from_str_defaulting(s) ==
    LET t == Join(trim(to_lowercase(s)))
    IN  CASE t = "hex" -> OkVariant("Hex")
          [] t = "rgb" -> OkVariant("Rgb")
          [] t = "hsl" -> OkVariant("Hsl")
          [] t = "hsv" -> OkVariant("Hsv")
          [] t = "cmyk" -> OkVariant("Cmyk")
          [] t = "xyz" -> OkVariant("Xyz")
          [] t = "cielab" -> OkVariant("Lab")
          [] t = "hwb" -> OkVariant("Hwb")
          [] t = "hcl" -> OkVariant("Hcl")
          [] t = "name" -> OkVariant("Name")
          [] t = "lms" -> OkVariant("Lms")
          [] t = "hunterlab" -> OkVariant("HunterLab")
          [] t = "oklab" -> OkVariant("Oklab")
          [] t = "oklch" -> OkVariant("Oklch")
          [] OTHER -> OkVariant(DefaultNotation)

\* Notation::from_str(s), lines 120-143
from_str(s) ==
    LET t == Join(trim(to_lowercase(s)))
    IN  CASE t = "hex" -> OkVariant("Hex")
          [] t = "rgb" -> OkVariant("Rgb")
          [] t = "hsl" -> OkVariant("Hsl")
          [] t = "hsv" -> OkVariant("Hsv")
          [] t = "cmyk" -> OkVariant("Cmyk")
          [] t = "xyz" -> OkVariant("Xyz")
          [] t = "cielab" -> OkVariant("Lab")
          [] t = "hwb" -> OkVariant("Hwb")
          [] t = "hcl" -> OkVariant("Hcl")
          [] t = "name" -> OkVariant("Name")
          [] t = "lms" -> OkVariant("Lms")
          [] t = "hunterlab" -> OkVariant("HunterLab")
          [] t = "oklab" -> OkVariant("Oklab")
          [] t = "oklch" -> OkVariant("Oklch")
          [] OTHER -> ParsingError("Failed to get color notation")

----------------------------------------------------------------------------
(* Inputs *)

\* the integers the store is made to hold for each key: the defined
\* selectors, one past them, and a negative one
SettingValues(key) ==
    CASE key = "cie-illuminants" -> {-1, 0, 1, 2}
      [] key = "cie-standard-observer" -> {0, 1, 2}
      [] OTHER -> {0, 1}

SampleTriples == {<<"10", "128", "200">>, <<"255", "255", "255">>}

\* texts handed to parse for a notation: well formed, with trailing tokens,
\* and malformed
Texts(n) ==
    IF n = "Name" THEN {<<"black">>, <<"notacolorname">>, <<>>}
    ELSE IF n = "Hex"
    THEN {<<"#", "FF", "00", "80">>, <<"#", "FF", "00", "80", "40">>,
          <<"#", "FF", "00", "80", "junk">>, <<"#", "GG", "00", "00">>,
          <<"#", "FF">>}
    ELSE {<<Opening(n)>> \o t \o <<")">> : t \in SampleTriples}
         \cup {<<Opening(n), "10", "128", "200", ")", "junk">>,
               <<Opening(n), "1", "2", ")">>,
               <<Opening(n), "300", "0", "0", ")">>,
               <<"rgba(", "1", "2", "3", ")">>}

\* every content of the store
Stores ==
    {s \in [Keys -> -1..2] : \A key \in Keys : s[key] \in SettingValues(key)}

\* the colours the parser of each notation produces from these texts
Produced ==
    [n \in Notations |->
        {parse(n, text, s).color : text \in Texts(n), s \in Stores}
            \ {NoColor}]

\* colours handed to as_str besides those
SampleColors == {MkColor(10, 128, 200, MaxChannel), MkColor(255, 0, 128, 64)}

\* the 14 labels and some texts that are none of them
Labels ==
    {<<"h", "e", "x">>, <<"r", "g", "b">>, <<"h", "s", "l">>,
     <<"h", "s", "v">>, <<"c", "m", "y", "k">>, <<"x", "y", "z">>,
     <<"c", "i", "e", "l", "a", "b">>, <<"h", "w", "b">>, <<"h", "c", "l">>,
     <<"n", "a", "m", "e">>, <<"l", "m", "s">>,
     <<"h", "u", "n", "t", "e", "r", "l", "a", "b">>,
     <<"o", "k", "l", "a", "b">>, <<"o", "k", "l", "c", "h">>}

NotLabels ==
    {<<>>, <<"l", "a", "b">>, <<"h", "e">>, <<"h", "e", "x", "x">>,
     <<"o", "k", " ", "l", "a", "b">>, <<"r", "\t", "g", "b">>,
     <<"r", "g", "b", "(">>, <<"l", "c", "h">>}

RECURSIVE Runs(_)
\* the runs of whitespace of length at most k
Runs(k) ==
    IF k = 0 THEN {<<>>}
    ELSE Runs(k - 1) \cup {<<w>> \o r : w \in WhiteSpace, r \in Runs(k - 1)}

Pads == Runs(MaxPad)

\* txt with the letters at the positions in mask in upper case
Recase(txt, mask) ==
    [i \in 1..Len(txt) |-> IF i \in mask THEN upper_char(txt[i]) ELSE txt[i]]

----------------------------------------------------------------------------
(* State machine *)

Init ==
    /\ settings \in [Keys -> {0, 1}]
    /\ locale \in Locales
    /\ op = "none"
    /\ notation = DefaultNotation
    /\ input = <<>>
    /\ base = <<>>
    /\ argColor = NoColor
    /\ result = NoResult
    /\ used = settings

\* the user changes a key in the preferences
SetSetting ==
    \E key \in Keys : \E v \in SettingValues(key) :
        /\ settings' = [settings EXCEPT ![key] = v]
        /\ op' = "set"
        /\ notation' = DefaultNotation
        /\ input' = <<>>
        /\ argColor' = NoColor
        /\ result' = NoResult
        /\ UNCHANGED <<locale, base, used>>

\* a call of Notation::parse
Parse ==
    \E n \in Notations : \E text \in Texts(n) :
        /\ op' = "parse"
        /\ notation' = n
        /\ input' = text
        /\ argColor' = NoColor
        /\ result' = parse(n, text, settings)
        /\ used' = settings
        /\ UNCHANGED <<settings, locale, base>>

\* a call of Notation::as_str
AsStr ==
    \E n \in Notations : \E col \in SampleColors \cup Produced[n] :
        /\ op' = "as_str"
        /\ notation' = n
        /\ input' = <<>>
        /\ argColor' = col
        /\ result' = as_str(n, col, settings, locale)
        /\ used' = settings
        /\ UNCHANGED <<settings, locale, base>>

Next == SetSetting \/ Parse \/ AsStr

Spec == Init /\ [][Next]_vars

\* the label lookup on its own: it reads no configuration; the input is a
\* label or another text, recased and padded with whitespace
InitLabel ==
    /\ settings = [k \in Keys |-> 0]
    /\ locale = "C"
    /\ op = "none"
    /\ notation = DefaultNotation
    /\ base \in Labels \cup NotLabels
    /\ \E mask \in SUBSET (1..Len(base)) : \E lead \in Pads, trail \in Pads :
           input = lead \o Recase(base, mask) \o trail
    /\ argColor = NoColor
    /\ result = NoResult
    /\ used = settings

\* a call of Notation::from_str
FromStr ==
    /\ op = "none"
    /\ op' = "from_str"
    /\ result' = from_str(input)
    /\ UNCHANGED <<settings, locale, notation, input, base, argColor, used>>

NextLabel == FromStr

SpecLabel == InitLabel /\ [][NextLabel]_vars

----------------------------------------------------------------------------
(* Properties *)

CieRelative == {"Lab", "HunterLab"}

\* what the parser selected for the last parse call returned
Delegated ==
    delegate(notation, input, illuminant_of(settings),
             ten_deg_observer_of(settings), alpha_position_of(settings))

\* two Colors agree within one unit in every channel
Close(a, b) ==
    /\ a.a - b.a \in -1..1
    /\ \A i \in 1..3 : a.c[i] - b.c[i] \in -1..1

\* C1: parse never fails silently.  When the delegated parser returns an
\* error, parse returns that error as a ColorError and no Color; when the
\* name registry has no match, Name returns the parsing error "No name
\* found"; and parse returns Ok(color) only with the Color the delegate (the
\* registry, for Name) produced.
ParseNeverFailsSilently ==
    op = "parse" =>
        IF notation = "Name"
        THEN /\ ~color_names_color(input).some
                    => result = ParsingError("No name found")
             /\ result.kind = "ok"
                    => color_names_color(input) = Some(result.color)
        ELSE /\ ~Delegated.ok
                    => result = ParsingError(Delegated.msg)
             /\ result.kind = "ok"
                    => Delegated.ok /\ result.color = Delegated.color

\* a parse of a malformed text that came back as an error from the parser
FailedParseReported ==
    /\ op = "parse"
    /\ notation = "Hsl"
    /\ ~Delegated.ok
    /\ result.kind = "err"
    /\ result.color = NoColor

\* C2 (as stated): for every notation but Name and every configuration, a
\* Color the notation's parser can produce, formatted by as_str and parsed
\* again under the same configuration, comes back within the tolerance.
RoundTrip ==
    (op = "as_str" /\ notation # "Name" /\ argColor \in Produced[notation])
        => LET r == parse(notation, result.text, settings)
           IN  r.kind = "ok" /\ Close(r.color, argColor)

\* C3: from_str is case-insensitive and whitespace-trimmed.  A label with
\* any of its letters in upper case and whitespace around it yields the
\* variant of the bare lowercase label; "RGB" yields Rgb.
LabelIgnoresCaseAndPadding ==
    (op = "from_str" /\ base \in Labels)
        => /\ result.kind = "ok"
           /\ result = from_str(base)
           /\ base = <<"r", "g", "b">> => result = OkVariant("Rgb")
           /\ base = <<"c", "i", "e", "l", "a", "b">>
                  => result = OkVariant("Lab")

\* "RGB" between whitespace was looked up and gave Rgb
PaddedUpperCaseLabelFound ==
    /\ op = "from_str"
    /\ input = <<" ", "R", "G", "B", "\t">>
    /\ result = OkVariant("Rgb")

\* C4: from_str rejects every text that is not one of the 14 labels, the
\* empty text and texts with whitespace inside included: the result is the
\* error "Failed to get color notation" and never a variant.
UnknownLabelRejected ==
    (op = "from_str" /\ base \in NotLabels)
        => /\ result = ParsingError("Failed to get color notation")
           /\ result.variant # DefaultNotation

\* a label with whitespace inside was rejected
InteriorWhitespaceRejected ==
    /\ op = "from_str"
    /\ base = <<"o", "k", " ", "l", "a", "b">>
    /\ Len(input) > Len(base)
    /\ result.kind = "err"

TrailingTextRejected ==
    (op = "parse" /\ notation # "Name" /\ Delegated.ok
        /\ Delegated.rest # <<>>)
        => result.kind = "err"

\* C7: illuminant and observer angle influence only Lab and HunterLab.  For
\* every other variant a parse under any other illuminant and observer
\* setting returns the same result, and the parser is handed neither value;
\* Lab and HunterLab are handed the configured ones.
IlluminantOnlyForCieRelative ==
    op = "parse" =>
        IF notation \in CieRelative
        THEN \A ill \in 1..Len(Illuminants) : \A ten \in BOOLEAN :
                 (illuminant_of(settings) = Illuminants[ill]
                     /\ ten_deg_observer_of(settings) = ten)
                 => Delegated =
                        functional(input, Opening(notation),
                                   WhitePoint(Illuminants[ill], ten))
        ELSE /\ \A s \in Stores :
                    s["alpha-position"] = settings["alpha-position"]
                        => parse(notation, input, s) = result
             /\ \A ill \in 1..Len(Illuminants) : \A ten \in BOOLEAN :
                    delegate(notation, input, Illuminants[ill], ten,
                             alpha_position_of(settings)) = Delegated

\* an Oklab text was parsed under illuminant D50 and the 10 degree observer
OklabParsedUnderD50 ==
    /\ op = "parse"
    /\ notation = "Oklab"
    /\ settings["cie-illuminants"] = 1
    /\ settings["cie-standard-observer"] = 1
    /\ result = OkColor(MkColor(10, 128, 200, MaxChannel))

\* the store s with the illuminant index set to i
WithIlluminant(s, i) == [s EXCEPT !["cie-illuminants"] = i]

\* C8 (as stated): for the same Color and observer angle, as_str(Lab) under
\* illuminant D65 and under D50 give different triples, and parse(Lab) of
\* each text under its own illuminant gives the Color back.  Stated for the
\* Colors whose coordinates against the two whites differ.
LabFormatFollowsIlluminant ==
    LET ten == ten_deg_observer_of(settings)
        s65 == WithIlluminant(settings, 0)
        s50 == WithIlluminant(settings, 1)
        t65 == as_str("Lab", argColor, s65, locale).text
        t50 == as_str("Lab", argColor, s50, locale).text
    IN  (/\ op = "as_str"
         /\ notation = "Lab"
         /\ \E i \in 1..3 :
                Encode(argColor.c[i], WhitePoint("D65", ten)[i])
                    # Encode(argColor.c[i], WhitePoint("D50", ten)[i]))
            => /\ t65 # t50
               /\ parse("Lab", t65, s65).kind = "ok"
               /\ Close(parse("Lab", t65, s65).color, argColor)
               /\ parse("Lab", t50, s50).kind = "ok"
               /\ Close(parse("Lab", t50, s50).color, argColor)

\* C9 (as stated): when the stored illuminant index names no illuminant (a
\* negative integer included) or the observer selector is neither of its two
\* values, parse for Lab / HunterLab reports a failure instead of going on
\* with a default.
UnknownSelectorRejected ==
    (/\ op = "parse"
     /\ notation \in CieRelative
     /\ \/ settings["cie-illuminants"] \notin 0..(Len(Illuminants) - 1)
        \/ settings["cie-standard-observer"] \notin {0, 1})
        => result.kind = "err"

\* C10: configuration is never cached across calls.  Every parse and as_str
\* call works with the values the store holds when the call is made, and no
\* call changes the store.
ConfigurationReadAtEachCall ==
    [][LET ten == settings["cie-standard-observer"] = 1
           ill == IlluminantFrom(AsU32(settings["cie-illuminants"]))
           ap == AlphaPositionFrom(AsU32(settings["alpha-position"]))
       IN  /\ op' = "parse"
                => /\ result' = dispatch(notation', input', ill, ten, ap)
                   /\ settings' = settings
           /\ op' = "as_str"
                => /\ result' = render(notation',
                                       with_alpha_position(argColor', ap),
                                       locale)
                   /\ settings' = settings]_vars

\* a Lab text parsed after the preferences were changed to an illuminant
\* index and an observer selector that no initial store holds
ParsedAfterSettingsChange ==
    /\ op = "parse"
    /\ notation = "Lab"
    /\ settings["cie-illuminants"] = 2
    /\ settings["cie-standard-observer"] = 2
    /\ result.kind = "ok"

====
